---- MODULE Spec2Model ----
(***************************************************************************)
(* OutlookMailClient (src/core/outlookmail_client.py): selection of an     *)
(* account from the pool served by the remote service, scan of an inbox    *)
(* for a verification code, and the polling loop around the scan.          *)
(* The operations are atomic actions, one client at a time; the statements *)
(* of register_account are also followed one by one, with the calls of two *)
(* clients interleaved.                                                    *)
(*                                                                         *)
(* Python values are kept as strings where the code only tests or copies   *)
(* them: None is the string "None", the empty string is "".                *)
(*                                                                         *)
(* _log (lines 37-42) swallows whatever the callback raises and changes no *)
(* state, so logging takes no part in the actions. _request (lines 44-57)  *)
(* either raises or returns the service's response: the response records   *)
(* carry both outcomes.                                                    *)
(***************************************************************************)
EXTENDS Integers, Sequences, FiniteSets, TLC

VARIABLES
  account_index,   \* OutlookMailClient._account_index (class level, shared)
  accounts_cache,  \* OutlookMailClient._accounts_cache (class level, shared)
  email,           \* self.email of every client instance
  account_id,      \* self.account_id of every client instance
  mailbox,         \* the messages the remote service holds for the inbox
  pc,              \* position of the running poll_for_code call
  poll,            \* locals of the running poll_for_code call
  result,          \* outcome of the last public operation that ended
  run,             \* the current streak of successful register_account calls
  session,         \* base_url, proxy_url and log_callback of every client
  reg,             \* position and locals of every client's register_account
                   \* call that is followed statement by statement
  remote           \* the account list the remote service holds

vars == <<account_index, accounts_cache, email, account_id, mailbox, pc, poll,
          result, run, session, reg, remote>>

\* --------------------------------------------------------------- bounds
\* page_size of _fetch_accounts, scaled down from the source's 100: the loop
\* only compares len(accounts) with it.
page_size == 2
\* the most page requests one _fetch_accounts call is followed through
MaxPages == 2
\* the most messages of an inbox in SpecScan
MaxInbox == 3

\* --------------------------------------------------------------- values
None == "None"

\* bool(v) of an Optional[str]
Truthy(v) == v # None /\ v # ""

Clients == {"c1", "c2"}

\* an entry {id, email} of the account list; wf = FALSE is a JSON entry that
\* is no object (it has no .get)
Account(n) == [wf |-> TRUE, id |-> ToString(n), email |-> "a" \o ToString(n) \o "@pool"]

BadEntry == [wf |-> FALSE, id |-> None, email |-> None]

Slice(lo, n) == [i \in 1..n |-> Account(lo + i - 1)]

\* --------------------------------------------------- the remote service
\* A response to GET /accounts: the request or res.json() raises, or a status
\* code and the decoded JSON array.
Response(raises, status_code, json) ==
  [raises |-> raises, status_code |-> status_code, json |-> json]

\* an empty page, a short page, a full page, a short page of further
\* accounts, and a page whose entry is no object
AccountPages ==
  {<<>>, Slice(1, 1), Slice(1, page_size), Slice(page_size + 1, 1), <<BadEntry>>}

AccountResponses ==
  {Response(TRUE, 0, <<>>), Response(FALSE, 500, <<>>)}
    \cup {Response(FALSE, 200, p) : p \in AccountPages}

\* the service's answers to the page requests of one call, in order
AccountScripts == UNION {[1..n -> AccountResponses] : n \in 1..MaxPages}

\* ------------------------------------------------------ _fetch_accounts
\* fetch_pages without `if len(accounts) < page_size: break`: only an empty
\* page or a failure ends the loop
RECURSIVE fetch_pages_NoShortStop(_, _, _)
fetch_pages_NoShortStop(script, page, all_accounts) ==
  IF page > Len(script)
  THEN [accounts |-> all_accounts, requests |-> page - 1, failed |-> FALSE,
        overrun |-> TRUE]
  ELSE
    LET res == script[page]
        stop(acc, f) == [accounts |-> acc, requests |-> page, failed |-> f,
                         overrun |-> FALSE]
    IN  IF res.raises THEN stop(all_accounts, TRUE)
        ELSE IF res.status_code # 200 THEN stop(all_accounts, TRUE)
        ELSE IF res.json = <<>> THEN stop(all_accounts, FALSE)
        ELSE fetch_pages_NoShortStop(script, page + 1, all_accounts \o res.json)

\* The while loop of _fetch_accounts from `page` on. `failed` records that a
\* request ended in a non-200 status or an exception, `requests` the number of
\* requests made, `overrun` that the script ended before the loop did.
RECURSIVE fetch_pages(_, _, _)
fetch_pages(script, page, all_accounts) ==
  IF page > Len(script)
  THEN [accounts |-> all_accounts, requests |-> page - 1, failed |-> FALSE,
        overrun |-> TRUE]
  ELSE
    LET res == script[page]
        stop(acc, f) == [accounts |-> acc, requests |-> page, failed |-> f,
                         overrun |-> FALSE]
    IN  IF res.raises THEN stop(all_accounts, TRUE)
        ELSE IF res.status_code # 200 THEN stop(all_accounts, TRUE)
        ELSE IF res.json = <<>> THEN stop(all_accounts, FALSE)
        ELSE IF Len(res.json) < page_size THEN stop(all_accounts \o res.json, FALSE)
        ELSE fetch_pages(script, page + 1, all_accounts \o res.json)

_fetch_accounts(script) == fetch_pages(script, 1, <<>>)

\* the scripts that answer exactly the requests the loop makes
ExactScripts ==
  {s \in AccountScripts :
     LET f == _fetch_accounts(s) IN ~f.overrun /\ f.requests = Len(s)}

\* ------------------------------------------------------------- results
\* ret is "True"/"False" for register_account, a code or None for the others;
\* exc names the exception that left the operation ("" when it returned).
\* fetch: what _fetch_accounts did, the answers the service gave to its page
\* requests, and the shared index when the call began; scan: what fetch_verification_code did;
\* poll: the locals of poll_for_code when it ended. cause / causes: what the
\* service answered to the list request of the scan / of every attempt.
NoFetch == [requests |-> 0, failed |-> FALSE, first_failed |-> FALSE,
            script |-> <<>>, index_before |-> 0]

NoSince == [given |-> FALSE, t |-> 0]

NoScan == [since |-> NoSince, requests |-> 0, cause |-> "none", listed |-> 0,
           order |-> <<>>, scanned |-> <<>>, skipped |-> {}, hit |-> 0]

NoPoll == [client |-> "c1", timeout |-> 0, interval |-> 0, since |-> NoSince,
           max_retries |-> 0, i |-> 0, attempts |-> <<>>, causes |-> <<>>,
           sleeps |-> 0, slept |-> 0, requests |-> 0]

Outcome(op, c, ret, exc) ==
  [op |-> op, client |-> c, ret |-> ret, exc |-> exc, fetch |-> NoFetch,
   scan |-> NoScan, poll |-> NoPoll]

\* no operation has ended yet, or one is running
NoResult == Outcome("none", "c1", None, "")

\* pool: the pool every call of the streak fetched; picks: the positions
\* (1-based) the last len(pool)+1 calls of the streak selected, oldest first;
\* by: the clients that made the calls
NoRun == [pool |-> <<>>, picks |-> <<>>, by |-> {}]

\* __init__ with its default arguments: base_url without trailing "/",
\* proxy_url "", log_callback None
NewSession ==
  [base_url |-> "http://your-outlook-api.com", proxy_url |-> "", log_callback |-> None]

\* no register_account call is followed statement by statement
NoCall ==
  [pc |-> "idle", page |-> 0, all_accounts |-> <<>>, requests |-> 0, total |-> 0,
   index |-> 0, began |-> 0, overlapped |-> FALSE, ret |-> None]

\* the last n elements of s
LastN(s, n) == IF Len(s) <= n THEN s ELSE SubSeq(s, Len(s) - n + 1, Len(s))

\* ----------------------------------------------------- register_account
\* Select with the index written back as it was read, not advanced
Select_NotAdvanced(c, pool, f) ==
  LET total == Len(pool)
      index == account_index % total
      account == pool[index + 1]
  IN  IF ~account.wf
      THEN /\ result' = [Outcome("register_account", c, None, "AttributeError")
                          EXCEPT !.fetch = f]
           /\ run' = NoRun
           /\ UNCHANGED <<account_index, email, account_id>>
      ELSE /\ email' = [email EXCEPT ![c] = account.email]
           /\ account_id' = [account_id EXCEPT ![c] = account.id]
           /\ account_index' = index % total
           /\ result' = [Outcome("register_account", c, "True", "") EXCEPT !.fetch = f]
           /\ run' = IF run.pool = pool
                      THEN [pool |-> pool,
                            picks |-> LastN(Append(run.picks, index + 1), total + 1),
                            by |-> run.by \cup {c}]
                      ELSE [pool |-> pool, picks |-> <<index + 1>>, by |-> {c}]

\* Select with the index advanced without wrapping: index + 1
Select_NoWrap(c, pool, f) ==
  LET total == Len(pool)
      index == account_index % total
      account == pool[index + 1]
  IN  IF ~account.wf
      THEN /\ result' = [Outcome("register_account", c, None, "AttributeError")
                          EXCEPT !.fetch = f]
           /\ run' = NoRun
           /\ UNCHANGED <<account_index, email, account_id>>
      ELSE /\ email' = [email EXCEPT ![c] = account.email]
           /\ account_id' = [account_id EXCEPT ![c] = account.id]
           /\ account_index' = index + 1
           /\ result' = [Outcome("register_account", c, "True", "") EXCEPT !.fetch = f]
           /\ run' = IF run.pool = pool
                      THEN [pool |-> pool,
                            picks |-> LastN(Append(run.picks, index + 1), total + 1),
                            by |-> run.by \cup {c}]
                      ELSE [pool |-> pool, picks |-> <<index + 1>>, by |-> {c}]

\* lines 96-110: the selection once the pool is known to be non-empty
Select(c, pool, f) ==
  LET total == Len(pool)
      index == account_index % total
      account == pool[index + 1]
  IN  IF ~account.wf
      THEN \* account.get raises AttributeError before anything is assigned
           /\ result' = [Outcome("register_account", c, None, "AttributeError")
                          EXCEPT !.fetch = f]
           /\ run' = NoRun
           /\ UNCHANGED <<account_index, email, account_id>>
      ELSE /\ email' = [email EXCEPT ![c] = account.email]
           /\ account_id' = [account_id EXCEPT ![c] = account.id]
           /\ account_index' = (index + 1) % total
           /\ result' = [Outcome("register_account", c, "True", "") EXCEPT !.fetch = f]
           /\ run' = IF run.pool = pool
                      THEN [pool |-> pool,
                            picks |-> LastN(Append(run.picks, index + 1), total + 1),
                            by |-> run.by \cup {c}]
                      ELSE [pool |-> pool, picks |-> <<index + 1>>, by |-> {c}]

\* register_account with the emptiness test lost: index % 0 raises
register_account_NoEmptyTest(c) ==
  /\ pc = "idle"
  /\ \E script \in ExactScripts :
       LET fetched == _fetch_accounts(script)
           f == [requests |-> fetched.requests, failed |-> fetched.failed,
                 first_failed |-> script[1].raises \/ script[1].status_code # 200,
                 script |-> script, index_before |-> account_index]
       IN  /\ accounts_cache' = fetched.accounts
           /\ IF fetched.accounts = <<>>
              THEN /\ result' = [Outcome("register_account", c, None, "ZeroDivisionError")
                                  EXCEPT !.fetch = f]
                   /\ run' = NoRun
                   /\ UNCHANGED <<account_index, email, account_id>>
              ELSE Select(c, fetched.accounts, f)
  /\ UNCHANGED <<mailbox, pc, poll, session, reg, remote>>

\* register_account that keeps the previous cache when the fetch returns nothing
register_account_KeepsCache(c) ==
  /\ pc = "idle"
  /\ \E script \in ExactScripts :
       LET fetched == _fetch_accounts(script)
           f == [requests |-> fetched.requests, failed |-> fetched.failed,
                 first_failed |-> script[1].raises \/ script[1].status_code # 200,
                 script |-> script, index_before |-> account_index]
           kept == IF fetched.accounts = <<>> THEN accounts_cache ELSE fetched.accounts
       IN  /\ accounts_cache' = kept
           /\ IF kept = <<>>
              THEN /\ result' = [Outcome("register_account", c, "False", "")
                                  EXCEPT !.fetch = f]
                   /\ run' = NoRun
                   /\ UNCHANGED <<account_index, email, account_id>>
              ELSE Select(c, kept, f)
  /\ UNCHANGED <<mailbox, pc, poll, session, reg, remote>>

\* register_account that starts the rotation over when the pool is empty
register_account_ResetsOnEmpty(c) ==
  /\ pc = "idle"
  /\ \E script \in ExactScripts :
       LET fetched == _fetch_accounts(script)
           f == [requests |-> fetched.requests, failed |-> fetched.failed,
                 first_failed |-> script[1].raises \/ script[1].status_code # 200,
                 script |-> script, index_before |-> account_index]
       IN  /\ accounts_cache' = fetched.accounts
           /\ IF fetched.accounts = <<>>
              THEN /\ result' = [Outcome("register_account", c, "False", "")
                                  EXCEPT !.fetch = f]
                   /\ run' = NoRun
                   /\ account_index' = 0
                   /\ UNCHANGED <<email, account_id>>
              ELSE Select(c, fetched.accounts, f)
  /\ UNCHANGED <<mailbox, pc, poll, session, reg, remote>>

\* lines 85-110
register_account(c) ==
  /\ pc = "idle"
  /\ \E script \in ExactScripts :
       LET fetched == _fetch_accounts(script)
           f == [requests |-> fetched.requests, failed |-> fetched.failed,
                 first_failed |-> script[1].raises \/ script[1].status_code # 200,
                 script |-> script, index_before |-> account_index]
       IN  /\ accounts_cache' = fetched.accounts
           /\ IF fetched.accounts = <<>>
              THEN /\ result' = [Outcome("register_account", c, "False", "")
                                  EXCEPT !.fetch = f]
                   /\ run' = NoRun
                   /\ UNCHANGED <<account_index, email, account_id>>
              ELSE Select(c, fetched.accounts, f)
  /\ UNCHANGED <<mailbox, pc, poll, session, reg, remote>>

\* ------------------------------------------------------ set_credentials
UserEmails == {"user@x"}

\* set_credentials that also forgets the account id
set_credentials_ClearsId(c, e) ==
  /\ pc = "idle"
  /\ email' = [email EXCEPT ![c] = e]
  /\ account_id' = [account_id EXCEPT ![c] = None]
  /\ result' = Outcome("set_credentials", c, None, "")
  /\ UNCHANGED <<account_index, accounts_cache, mailbox, pc, poll, run,
                 session, reg, remote>>

\* lines 33-35
set_credentials(c, e) ==
  /\ pc = "idle"
  /\ email' = [email EXCEPT ![c] = e]
  /\ result' = Outcome("set_credentials", c, None, "")
  /\ UNCHANGED <<account_index, accounts_cache, account_id, mailbox, pc, poll, run,
                 session, reg, remote>>

\* ------------------------------------------------------------ messages
\* A received_time is a string, kept as the sequence of its character codes
\* ("+" 43, "0".."9" 48..57, "Z" 90, "x" 120). The service's format
\* "2026-01-27T11:49:10Z" is abridged to one digit of time and the zone
\* designator: "1Z", "2Z", "3Z". "" stands for a missing or empty
\* received_time (both are falsy), "2x" for one that does not parse.
TimeStrings == {<<>>, <<49, 90>>, <<50, 90>>, <<51, 90>>, <<50, 120>>}

\* a text is a sequence of words
Plain == [body |-> <<"hello">>, body_preview |-> <<>>]

CodeInBody == [body |-> <<"hello", "111111">>, body_preview |-> <<>>]

CodeInPreview == [body |-> <<"hello">>, body_preview |-> <<"222222">>]

Contents == {Plain, CodeInPreview}

Message(t, c) ==
  [wf |-> TRUE, received_time |-> t, body |-> c.body, body_preview |-> c.body_preview]

\* an entry of the emails array that is no object
BadMessage == [wf |-> FALSE, received_time |-> <<>>, body |-> <<>>, body_preview |-> <<>>]

Messages == {Message(t, c) : t \in TimeStrings, c \in Contents}

Inboxes == UNION {[1..n -> Messages] : n \in 0..MaxInbox}

\* the offset of the local time zone from UTC, in the unit of the time digit
LocalUtcOffset == 1

\* --------------------------------------------------------- _list_emails
\* the service's answer to GET /emails/by-email/{email}
ListKinds == {"ok", "http_error", "not_success", "exception", "bad_shape"}

ListResponse(kind, inbox) ==
  [raises |-> kind = "exception",
   status_code |-> IF kind = "http_error" THEN 500 ELSE 200,
   success |-> kind # "not_success",
   emails |-> IF kind = "bad_shape" THEN <<BadMessage>> ELSE inbox]

\* what the service did with one list request: one of the ListKinds, with
\* "empty" for a well-formed answer that lists no message
Cause(kind, inbox) == IF kind = "ok" /\ inbox = <<>> THEN "empty" ELSE kind

\* _list_emails without the test of body.get("success")
_list_emails_IgnoresSuccess(res) ==
  IF res.raises THEN <<>>
  ELSE IF res.status_code # 200 THEN <<>>
  ELSE res.emails

\* lines 112-127
_list_emails(res) ==
  IF res.raises THEN <<>>
  ELSE IF res.status_code # 200 THEN <<>>
  ELSE IF ~res.success THEN <<>>
  ELSE res.emails

\* -------------------------------------------- extract_verification_code
Codes == {"111111", "222222"}

\* core.mail_utils.extract_verification_code: the first code in the text
RECURSIVE extract_verification_code(_)
extract_verification_code(content) ==
  IF content = <<>> THEN None
  ELSE IF Head(content) \in Codes THEN Head(content)
  ELSE extract_verification_code(Tail(content))

\* ----------------------------------------------- fetch_verification_code
\* a < b on Python strings: by code point, a proper prefix first
RECURSIVE StrLess(_, _)
StrLess(a, b) ==
  IF b = <<>> THEN FALSE
  ELSE IF a = <<>> THEN TRUE
  ELSE IF Head(a) # Head(b) THEN Head(a) < Head(b)
  ELSE StrLess(Tail(a), Tail(b))

\* lambda x: x.get("received_time") or ""
SortKey(msg) == msg.received_time

\* sorted without reverse=True: oldest first
RECURSIVE sorted_from_Ascending(_, _, _)
sorted_from_Ascending(emails, k, done) ==
  IF k > Len(emails) THEN done
  ELSE
    LET notAbove == SelectSeq(done, LAMBDA i : ~StrLess(SortKey(emails[k]), SortKey(emails[i])))
        above == SelectSeq(done, LAMBDA i : StrLess(SortKey(emails[k]), SortKey(emails[i])))
    IN  sorted_from_Ascending(emails, k + 1, notAbove \o <<k>> \o above)

\* sorted(emails, key=..., reverse=True), as the positions in `emails` of the
\* sorted messages: a stable sort, equal keys keep their listed order.
RECURSIVE sorted_from(_, _, _)
sorted_from(emails, k, done) ==
  IF k > Len(emails) THEN done
  ELSE
    LET notBelow == SelectSeq(done, LAMBDA i : ~StrLess(SortKey(emails[i]), SortKey(emails[k])))
        below == SelectSeq(done, LAMBDA i : StrLess(SortKey(emails[i]), SortKey(emails[k])))
    IN  sorted_from(emails, k + 1, notBelow \o <<k>> \o below)

sorted_Ascending(emails) == sorted_from_Ascending(emails, 1, <<>>)

sorted(emails) == sorted_from(emails, 1, <<>>)

\* received_time.replace("Z", "+00:00"), the offset abridged to "+0"
RECURSIVE ReplaceZ(_)
ReplaceZ(s) ==
  IF s = <<>> THEN <<>>
  ELSE (IF Head(s) = 90 THEN <<43, 48>> ELSE <<Head(s)>>) \o ReplaceZ(Tail(s))

IsDigit(ch) == ch \in 48..57

\* datetime.fromisoformat: a time digit, alone (naive) or followed by "+" and
\* an offset digit (aware); anything else raises ValueError
fromisoformat(s) ==
  IF Len(s) = 1 /\ IsDigit(s[1])
  THEN [ok |-> TRUE, aware |-> FALSE, t |-> s[1] - 48, offset |-> 0]
  ELSE IF Len(s) = 3 /\ IsDigit(s[1]) /\ s[2] = 43 /\ IsDigit(s[3])
  THEN [ok |-> TRUE, aware |-> TRUE, t |-> s[1] - 48, offset |-> s[3] - 48]
  ELSE [ok |-> FALSE, aware |-> FALSE, t |-> 0, offset |-> 0]

\* .astimezone().replace(tzinfo=None): the naive local time
LocalNaive(d) == IF d.aware THEN d.t - d.offset + LocalUtcOffset ELSE d.t

\* Skips with `msg_time <= since_time`
Skips_OrEqual(msg, since_time) ==
  /\ since_time.given
  /\ msg.received_time # <<>>
  /\ LET d == fromisoformat(ReplaceZ(msg.received_time))
     IN  d.ok /\ LocalNaive(d) <= since_time.t

\* Skips with `continue` in the except clause: what does not parse is skipped
Skips_Unparsed(msg, since_time) ==
  /\ since_time.given
  /\ msg.received_time # <<>>
  /\ LET d == fromisoformat(ReplaceZ(msg.received_time))
     IN  ~d.ok \/ LocalNaive(d) < since_time.t

\* lines 154-166: whether the since_time filter skips the message
Skips(msg, since_time) ==
  /\ since_time.given
  /\ msg.received_time # <<>>
  /\ LET d == fromisoformat(ReplaceZ(msg.received_time))
     IN  d.ok /\ LocalNaive(d) < since_time.t

\* the for loop of lines 152-176 from position k of the sorted messages on
RECURSIVE scan(_, _, _, _, _)
scan(emails, order, since_time, k, acc) ==
  IF k > Len(order) THEN [acc EXCEPT !.ret = None]
  ELSE
    LET msg == emails[order[k]]
    IN  IF Skips(msg, since_time)
        THEN scan(emails, order, since_time, k + 1,
                  [acc EXCEPT !.skipped = @ \cup {order[k]}])
        ELSE
          LET content == msg.body \o msg.body_preview
              code == extract_verification_code(content)
              seen == [acc EXCEPT !.scanned = Append(@, order[k])]
          IN  IF Truthy(code)
              THEN [seen EXCEPT !.ret = code, !.hit = order[k]]
              ELSE scan(emails, order, since_time, k + 1, seen)

\* lines 135-185 for a truthy self.email. order: the sorted order, scanned: the
\* messages whose text was searched, in order, skipped: those the since_time
\* filter left out, hit: the message the returned code came from (0: none);
\* all as positions in the listed sequence.
scan_emails(res, since_time) ==
  LET emails == _list_emails(res)
      start == [ret |-> None, order |-> <<>>, scanned |-> <<>>, skipped |-> {},
                hit |-> 0, listed |-> Len(emails)]
  IN  IF emails = <<>> THEN start
      ELSE IF \E i \in DOMAIN emails : ~emails[i].wf
      THEN start  \* x.get raises AttributeError in the sort key: caught, None
      ELSE scan(emails, sorted(emails), since_time, 1,
                [start EXCEPT !.order = sorted(emails)])

\* the times since_time is given: the local times of the parseable stamps
SinceTimes ==
  {NoSince} \cup
  {[given |-> TRUE, t |-> LocalNaive(fromisoformat(ReplaceZ(s)))] :
     s \in {x \in TimeStrings : fromisoformat(ReplaceZ(x)).ok}}

ScanOutcome(c, since_time, requests, cause, s) ==
  [Outcome("fetch_verification_code", c, s.ret, "") EXCEPT
     !.scan = [since |-> since_time, requests |-> requests, cause |-> cause,
               listed |-> s.listed,
               order |-> s.order, scanned |-> s.scanned, skipped |-> s.skipped,
               hit |-> s.hit]]

fetch_verification_code(c, since_time, kind) ==
  /\ pc = "idle"
  /\ IF ~Truthy(email[c])
     THEN result' = [Outcome("fetch_verification_code", c, None, "")
                       EXCEPT !.scan.since = since_time]
     ELSE result' = ScanOutcome(c, since_time, 1, Cause(kind, mailbox),
                                scan_emails(ListResponse(kind, mailbox), since_time))
  /\ UNCHANGED <<account_index, accounts_cache, email, account_id, mailbox, pc,
                 poll, run, session, reg, remote>>

\* -------------------------------------------------------- poll_for_code
\* Python's floor division for b # 0
FloorDiv(a, b) ==
  LET n == IF a < 0 THEN -a ELSE a
      d == IF b < 0 THEN -b ELSE b
      q == n \div d
  IN  IF (a < 0) = (b < 0) THEN q
      ELSE IF q * d = n THEN -q ELSE -(q + 1)

Max(a, b) == IF a >= b THEN a ELSE b

Timeouts == {-10, 3, 10, 12}

Intervals == {-5, 0, 4, 5}

\* poll_for_code with one retry too many: timeout // interval + 1
poll_for_code_ExtraRetry(c, timeout, interval, since_time) ==
  /\ pc = "idle"
  /\ LET args == [NoPoll EXCEPT !.client = c, !.timeout = timeout,
                                !.interval = interval, !.since = since_time]
     IN  IF ~Truthy(email[c])
         THEN /\ result' = [Outcome("poll_for_code", c, None, "") EXCEPT !.poll = args]
              /\ UNCHANGED <<pc, poll>>
         ELSE IF interval = 0
         THEN /\ result' = [Outcome("poll_for_code", c, None, "ZeroDivisionError")
                              EXCEPT !.poll = args]
              /\ UNCHANGED <<pc, poll>>
         ELSE /\ poll' = [args EXCEPT
                            !.max_retries = Max(1, FloorDiv(timeout, interval) + 1),
                            !.i = 1]
              /\ pc' = "attempt"
              /\ result' = NoResult
  /\ UNCHANGED <<account_index, accounts_cache, email, account_id, mailbox, run,
                 session, reg, remote>>

\* poll_for_code without the test of self.email
poll_for_code_NoEmailTest(c, timeout, interval, since_time) ==
  /\ pc = "idle"
  /\ LET args == [NoPoll EXCEPT !.client = c, !.timeout = timeout,
                                !.interval = interval, !.since = since_time]
     IN  IF interval = 0
         THEN /\ result' = [Outcome("poll_for_code", c, None, "ZeroDivisionError")
                              EXCEPT !.poll = args]
              /\ UNCHANGED <<pc, poll>>
         ELSE /\ poll' = [args EXCEPT !.max_retries = Max(1, FloorDiv(timeout, interval)),
                                      !.i = 1]
              /\ pc' = "attempt"
              /\ result' = NoResult
  /\ UNCHANGED <<account_index, accounts_cache, email, account_id, mailbox, run,
                 session, reg, remote>>

\* lines 194-199: the call up to the loop
poll_for_code(c, timeout, interval, since_time) ==
  /\ pc = "idle"
  /\ LET args == [NoPoll EXCEPT !.client = c, !.timeout = timeout,
                                !.interval = interval, !.since = since_time]
     IN  IF ~Truthy(email[c])
         THEN /\ result' = [Outcome("poll_for_code", c, None, "") EXCEPT !.poll = args]
              /\ UNCHANGED <<pc, poll>>
         ELSE IF interval = 0
         THEN \* timeout // interval raises, outside any try
              /\ result' = [Outcome("poll_for_code", c, None, "ZeroDivisionError")
                              EXCEPT !.poll = args]
              /\ UNCHANGED <<pc, poll>>
         ELSE /\ poll' = [args EXCEPT !.max_retries = Max(1, FloorDiv(timeout, interval)),
                                      !.i = 1]
              /\ pc' = "attempt"
              /\ result' = NoResult
  /\ UNCHANGED <<account_index, accounts_cache, email, account_id, mailbox, run,
                 session, reg, remote>>

\* poll_attempt with `i <= max_retries` guarding the sleep
poll_attempt_SleepsAfterLast(kind) ==
  /\ pc = "attempt"
  /\ LET s == scan_emails(ListResponse(kind, mailbox), poll.since)
         code == s.ret
         made == [poll EXCEPT !.attempts = Append(@, code),
                              !.causes = Append(@, Cause(kind, mailbox)),
                              !.requests = @ + 1]
     IN  IF Truthy(code)
         THEN /\ result' = [Outcome("poll_for_code", poll.client, code, "")
                              EXCEPT !.poll = made]
              /\ pc' = "idle"
              /\ poll' = NoPoll
         ELSE IF poll.i <= poll.max_retries
         THEN /\ poll' = made
              /\ pc' = "sleep"
              /\ UNCHANGED result
         ELSE /\ result' = [Outcome("poll_for_code", poll.client, None, "")
                              EXCEPT !.poll = made]
              /\ pc' = "idle"
              /\ poll' = NoPoll
  /\ UNCHANGED <<account_index, accounts_cache, email, account_id, mailbox, run,
                 session, reg, remote>>

\* lines 201-207 and 210-211: one pass of the loop body up to the sleep
poll_attempt(kind) ==
  /\ pc = "attempt"
  /\ LET s == scan_emails(ListResponse(kind, mailbox), poll.since)
         code == s.ret
         made == [poll EXCEPT !.attempts = Append(@, code),
                              !.causes = Append(@, Cause(kind, mailbox)),
                              !.requests = @ + 1]
     IN  IF Truthy(code)
         THEN /\ result' = [Outcome("poll_for_code", poll.client, code, "")
                              EXCEPT !.poll = made]
              /\ pc' = "idle"
              /\ poll' = NoPoll
         ELSE IF poll.i < poll.max_retries
         THEN /\ poll' = made
              /\ pc' = "sleep"
              /\ UNCHANGED result
         ELSE /\ result' = [Outcome("poll_for_code", poll.client, None, "")
                              EXCEPT !.poll = made]
              /\ pc' = "idle"
              /\ poll' = NoPoll
  /\ UNCHANGED <<account_index, accounts_cache, email, account_id, mailbox, run,
                 session, reg, remote>>

\* poll_sleep with time.sleep(timeout)
poll_sleep_SleepsTimeout ==
  /\ pc = "sleep"
  /\ IF poll.interval < 0
     THEN /\ result' = [Outcome("poll_for_code", poll.client, None, "ValueError")
                          EXCEPT !.poll = poll]
          /\ pc' = "idle"
          /\ poll' = NoPoll
     ELSE /\ poll' = [poll EXCEPT !.sleeps = @ + 1, !.slept = @ + poll.timeout,
                                  !.i = @ + 1]
          /\ pc' = "attempt"
          /\ UNCHANGED result
  /\ UNCHANGED <<account_index, accounts_cache, email, account_id, mailbox, run,
                 session, reg, remote>>

\* line 208 and the next turn of the for loop; slept: the time slept so far
poll_sleep ==
  /\ pc = "sleep"
  /\ IF poll.interval < 0
     THEN \* time.sleep raises ValueError for a negative length
          /\ result' = [Outcome("poll_for_code", poll.client, None, "ValueError")
                          EXCEPT !.poll = poll]
          /\ pc' = "idle"
          /\ poll' = NoPoll
     ELSE /\ poll' = [poll EXCEPT !.sleeps = @ + 1, !.slept = @ + poll.interval,
                                  !.i = @ + 1]
          /\ pc' = "attempt"
          /\ UNCHANGED result
  /\ UNCHANGED <<account_index, accounts_cache, email, account_id, mailbox, run,
                 session, reg, remote>>

\* ------------------------------------------------------ the environment
\* the inboxes the service holds while a client polls
PollInboxes ==
  {<<>>,
   <<Message(<<49, 90>>, Plain)>>,
   <<Message(<<49, 90>>, Plain), Message(<<51, 90>>, CodeInBody)>>}

\* mail arrives at, or is removed from, the remote inbox
mail_changes ==
  /\ \E inbox \in PollInboxes : inbox # mailbox /\ mailbox' = inbox
  /\ UNCHANGED <<account_index, accounts_cache, email, account_id, pc, poll,
                 result, run, session, reg, remote>>

\* ------------------------------ register_account, statement by statement
\* The calls of the clients run in threads of their own; a step is a statement
\* that reads or writes a class attribute, together with the statements on
\* locals and instance fields that follow it.

\* the most accounts the remote service holds
MaxRemote == 4

RemoteLists == {Slice(1, n) : n \in 0..MaxRemote}

\* the service's answer to GET /accounts?page=..&page_size=..: the page_size
\* accounts of that page, fewer or none at the end of its list
ServePage(list, page) ==
  LET lo == (page - 1) * page_size + 1
      hi == IF page * page_size < Len(list) THEN page * page_size ELSE Len(list)
  IN  Response(FALSE, 200, IF lo > Len(list) THEN <<>> ELSE SubSeq(list, lo, hi))

Running(c) == reg[c].pc \notin {"idle", "done"}

StepFrame == UNCHANGED <<mailbox, pc, poll, result, run, session, remote>>

\* lines 85-90 and 61-63: the call begins and enters _fetch_accounts. began:
\* the shared index at that moment; overlapped: another call was running at
\* some moment of this one
begin_register(c) ==
  /\ reg[c].pc = "idle"
  /\ reg' = [d \in Clients |->
               IF d = c
               THEN [NoCall EXCEPT !.pc = "fetch", !.page = 1,
                                   !.began = account_index,
                                   !.overlapped = \E e \in Clients \ {c} : Running(e)]
               ELSE IF Running(d) THEN [reg[d] EXCEPT !.overlapped = TRUE]
               ELSE reg[d]]
  /\ UNCHANGED <<account_index, accounts_cache, email, account_id>>
  /\ StepFrame

\* request_page with `continue` for `break` after an empty page
request_page_RetriesEmpty(c) ==
  /\ reg[c].pc = "fetch"
  /\ LET res == ServePage(remote, reg[c].page)
         asked == [reg[c] EXCEPT !.requests = @ + 1]
         break(r) == [r EXCEPT !.pc = "store"]
     IN  reg' = [reg EXCEPT ![c] =
           IF res.raises THEN break(asked)
           ELSE IF res.status_code # 200 THEN break(asked)
           ELSE IF res.json = <<>> THEN asked
           ELSE IF Len(res.json) < page_size
           THEN break([asked EXCEPT !.all_accounts = @ \o res.json])
           ELSE [asked EXCEPT !.all_accounts = @ \o res.json, !.page = @ + 1]]
  /\ UNCHANGED <<account_index, accounts_cache, email, account_id>>
  /\ StepFrame

\* lines 65-81: one turn of the while loop
request_page(c) ==
  /\ reg[c].pc = "fetch"
  /\ LET res == ServePage(remote, reg[c].page)
         asked == [reg[c] EXCEPT !.requests = @ + 1]
         break(r) == [r EXCEPT !.pc = "store"]
     IN  reg' = [reg EXCEPT ![c] =
           IF res.raises THEN break(asked)
           ELSE IF res.status_code # 200 THEN break(asked)
           ELSE IF res.json = <<>> THEN break(asked)
           ELSE IF Len(res.json) < page_size
           THEN break([asked EXCEPT !.all_accounts = @ \o res.json])
           ELSE [asked EXCEPT !.all_accounts = @ \o res.json, !.page = @ + 1]]
  /\ UNCHANGED <<account_index, accounts_cache, email, account_id>>
  /\ StepFrame

\* line 90: the returned list replaces the class-level cache
store_cache(c) ==
  /\ reg[c].pc = "store"
  /\ accounts_cache' = reg[c].all_accounts
  /\ reg' = [reg EXCEPT ![c].pc = "test"]
  /\ UNCHANGED <<account_index, email, account_id>>
  /\ StepFrame

\* lines 92-94
test_empty(c) ==
  /\ reg[c].pc = "test"
  /\ reg' = [reg EXCEPT ![c] =
               IF accounts_cache = <<>>
               THEN [reg[c] EXCEPT !.pc = "done", !.ret = "False"]
               ELSE [reg[c] EXCEPT !.pc = "total"]]
  /\ UNCHANGED <<account_index, accounts_cache, email, account_id>>
  /\ StepFrame

\* line 96
read_total(c) ==
  /\ reg[c].pc = "total"
  /\ reg' = [reg EXCEPT ![c].total = Len(accounts_cache), ![c].pc = "index"]
  /\ UNCHANGED <<account_index, accounts_cache, email, account_id>>
  /\ StepFrame

\* line 100
read_index(c) ==
  /\ reg[c].pc = "index"
  /\ reg' = [reg EXCEPT ![c] =
               IF reg[c].total = 0
               THEN [reg[c] EXCEPT !.pc = "done", !.ret = "ZeroDivisionError"]
               ELSE [reg[c] EXCEPT !.index = account_index % reg[c].total,
                                   !.pc = "account"]]
  /\ UNCHANGED <<account_index, accounts_cache, email, account_id>>
  /\ StepFrame

\* lines 101-104
read_account(c) ==
  /\ reg[c].pc = "account"
  /\ IF reg[c].index >= Len(accounts_cache)
     THEN /\ reg' = [reg EXCEPT ![c].pc = "done", ![c].ret = "IndexError"]
          /\ UNCHANGED <<email, account_id>>
     ELSE LET account == accounts_cache[reg[c].index + 1]
          IN  IF ~account.wf
              THEN /\ reg' = [reg EXCEPT ![c].pc = "done", ![c].ret = "AttributeError"]
                   /\ UNCHANGED <<email, account_id>>
              ELSE /\ email' = [email EXCEPT ![c] = account.email]
                   /\ account_id' = [account_id EXCEPT ![c] = account.id]
                   /\ reg' = [reg EXCEPT ![c].pc = "advance"]
  /\ UNCHANGED <<account_index, accounts_cache>>
  /\ StepFrame

\* write_index that writes the index back as it was read
write_index_NotAdvanced(c) ==
  /\ reg[c].pc = "advance"
  /\ account_index' = reg[c].index % reg[c].total
  /\ reg' = [reg EXCEPT ![c].pc = "done", ![c].ret = "True"]
  /\ UNCHANGED <<accounts_cache, email, account_id>>
  /\ StepFrame

\* lines 107-110
write_index(c) ==
  /\ reg[c].pc = "advance"
  /\ account_index' = (reg[c].index + 1) % reg[c].total
  /\ reg' = [reg EXCEPT ![c].pc = "done", ![c].ret = "True"]
  /\ UNCHANGED <<accounts_cache, email, account_id>>
  /\ StepFrame

\* the threads are joined: every call has returned, the clients may call again
join ==
  /\ \A c \in Clients : reg[c].pc = "done"
  /\ reg' = [c \in Clients |-> NoCall]
  /\ UNCHANGED <<account_index, accounts_cache, email, account_id>>
  /\ StepFrame

\* ------------------------------------------------------- specifications
\* the class attributes and two freshly constructed clients
Init ==
  /\ account_index = 0
  /\ accounts_cache = <<>>
  /\ email = [c \in Clients |-> None]
  /\ account_id = [c \in Clients |-> None]
  /\ mailbox = <<>>
  /\ pc = "idle"
  /\ poll = NoPoll
  /\ result = NoResult
  /\ run = NoRun
  /\ session = [c \in Clients |-> NewSession]
  /\ reg = [c \in Clients |-> NoCall]
  /\ remote = <<>>

\* account selection: register_account and set_credentials of two clients
Next ==
  \/ \E c \in Clients : register_account(c)
  \/ \E c \in Clients, e \in UserEmails : set_credentials(c, e)

Spec == Init /\ [][Next]_vars

\* the states register_account and set_credentials leave the clients in,
\* as the scan and the poll start from them
Registered ==
  /\ \E n \in 0..1 :
       /\ account_index = n
       /\ accounts_cache = Slice(1, page_size * n)
       /\ account_id = [c \in Clients |-> IF c = "c1" /\ n = 1 THEN "1" ELSE None]
       /\ email \in {[c \in Clients |-> IF c = "c1" /\ n = 1 THEN "a1@pool" ELSE None],
                     [c \in Clients |-> IF c = "c1" THEN "user@x" ELSE None]}
  /\ pc = "idle"
  /\ poll = NoPoll
  /\ result = NoResult
  /\ run = NoRun
  /\ session = [c \in Clients |-> NewSession]
  /\ reg = [c \in Clients |-> NoCall]
  /\ remote = <<>>

\* the scan on its own, by a client that has registered: every inbox the
\* service may list, every since_time
InitScan == Registered /\ email["c1"] = "a1@pool" /\ mailbox \in Inboxes

NextScan ==
  \E since_time \in SinceTimes : fetch_verification_code("c1", since_time, "ok")

SpecScan == InitScan /\ [][NextScan]_vars

\* the polling loop against a changing inbox and a failing service
InitPoll == Registered /\ mailbox \in PollInboxes

NextPoll ==
  \/ \E c \in Clients, timeout \in Timeouts, interval \in Intervals,
        since_time \in SinceTimes :
       poll_for_code(c, timeout, interval, since_time)
  \/ \E kind \in ListKinds : poll_attempt(kind)
  \/ poll_sleep
  \/ \E c \in Clients, since_time \in SinceTimes, kind \in ListKinds :
       fetch_verification_code(c, since_time, kind)
  \/ mail_changes

SpecPoll == InitPoll /\ [][NextPoll]_vars

\* every operation, one after the other, from construction on: c1 takes its
\* account from the pool, of which the service holds no account or one full
\* page, both clients are given an address, fetch and poll; the polls are
\* called with timeout=10, interval=5
NextSession ==
  \/ \E c \in {"c1"} :
       accounts_cache' \in {<<>>, Slice(1, page_size)} /\ register_account(c)
  \/ \E c \in Clients, e \in UserEmails : set_credentials(c, e)
  \/ \E c \in Clients : fetch_verification_code(c, NoSince, "ok")
  \/ \E c \in Clients : poll_for_code(c, 10, 5, NoSince)
  \/ \E kind \in {"ok", "exception"} : poll_attempt(kind)
  \/ poll_sleep
  \/ mail_changes

SpecSession == Init /\ [][NextSession]_vars

\* concurrent register_account calls, one per client and round, against a
\* service whose account list does not change
InitSteps ==
  /\ account_index = 0
  /\ accounts_cache = <<>>
  /\ email = [c \in Clients |-> None]
  /\ account_id = [c \in Clients |-> None]
  /\ mailbox = <<>>
  /\ pc = "idle"
  /\ poll = NoPoll
  /\ result = NoResult
  /\ run = NoRun
  /\ session = [c \in Clients |-> NewSession]
  /\ reg = [c \in Clients |-> NoCall]
  /\ remote \in RemoteLists

NextSteps ==
  \/ \E c \in Clients : begin_register(c)
  \/ \E c \in Clients : request_page(c)
  \/ \E c \in Clients : store_cache(c)
  \/ \E c \in Clients : test_empty(c)
  \/ \E c \in Clients : read_total(c)
  \/ \E c \in Clients : read_index(c)
  \/ \E c \in Clients : read_account(c)
  \/ \E c \in Clients : write_index(c)
  \/ join

SpecSteps == InitSteps /\ [][NextSteps]_vars

\* the statements of the call of client c
register_step(c) ==
  \/ begin_register(c)
  \/ request_page(c)
  \/ store_cache(c)
  \/ test_empty(c)
  \/ read_total(c)
  \/ read_index(c)
  \/ read_account(c)
  \/ write_index(c)

\* every thread gets to run: the service answers every page request (or the
\* request raises, line 53), no other statement of the call blocks
SpecStepsFair ==
  InitSteps /\ [][NextSteps]_vars /\ \A c \in Clients : WF_vars(register_step(c))

\* ------------------------------------------------------------- account pool
NoDup(s) == \A i, j \in DOMAIN s : i # j => s[i] # s[j]

\* the account the k-th call of the streak selected
Picked(k) == run.pool[run.picks[k]]

\* C1: while every fetch returns the same N >= 1 distinct accounts in the same
\* order, any two of N consecutive successful register_account calls select
\* different accounts, N consecutive calls select every account of the pool,
\* the (N+1)-th call selects what the first did, and the account selected is
\* the one the calling client then holds; whoever the callers are and whatever
\* the shared index was before.
RoundRobin ==
  LET N == Len(run.pool)
  IN  (N >= 1 /\ NoDup(run.pool)) =>
        /\ \A a, b \in DOMAIN run.picks :
             (a < b /\ b - a < N) => Picked(a) # Picked(b)
        /\ Len(run.picks) >= N =>
             {Picked(k) : k \in 1..N} = {run.pool[i] : i \in 1..N}
        /\ Len(run.picks) = N + 1 => Picked(N + 1) = Picked(1)
        /\ (result.op = "register_account" /\ result.ret = "True") =>
             /\ email[result.client] = Picked(Len(run.picks)).email
             /\ account_id[result.client] = Picked(Len(run.picks)).id

\* N+1 calls by both clients over a pool of N = page_size + 1 accounts, the
\* first of them starting in the middle of the pool
RoundRobinWitness ==
  /\ Len(run.pool) = page_size + 1
  /\ NoDup(run.pool)
  /\ Len(run.picks) = Len(run.pool) + 1
  /\ run.picks[1] = 2
  /\ run.by = Clients

\* C9: a register_account call whose fetched pool is empty returns False
EmptyPoolFails ==
  (result.op = "register_account" /\ accounts_cache = <<>>) =>
    (result.ret = "False" /\ result.exc = "")

\* an empty pool fetched after earlier calls had advanced the index
EmptyPoolFailsWitness ==
  /\ result.op = "register_account"
  /\ accounts_cache = <<>>
  /\ result.ret = "False"
  /\ account_index = page_size

\* C10 as stated: a call during which any page request failed returns False
AnyPageFailureFails ==
  (result.op = "register_account" /\ result.fetch.failed) => result.ret = "False"

\* C10 as amended: a call whose first page request failed returns False with an
\* empty pool after that one request; a failure of a later page leaves the
\* pool non-empty and the call does not return False
FirstPageFailureFails ==
  result.op = "register_account" =>
    /\ result.fetch.first_failed =>
         /\ result.ret = "False" /\ result.exc = ""
         /\ result.fetch.requests = 1
         /\ accounts_cache = <<>>
    /\ (result.fetch.failed /\ ~result.fetch.first_failed) =>
         /\ result.fetch.requests > 1
         /\ accounts_cache # <<>>
         /\ result.ret # "False"

FirstPageFailureFailsWitness ==
  /\ result.op = "register_account"
  /\ result.fetch.first_failed
  /\ result.ret = "False"
  /\ account_index > 0

\* C13: a successful register_account call selects the entry at position
\* i mod size of the pool this same call fetched, i being the shared index
\* before the call: the position lies within the pool whatever i was, also
\* when the pool has grown or shrunk since i was written, and afterwards the
\* shared index is (position + 1) mod size, within 0..size-1.
IndexModuloSize ==
  (result.op = "register_account" /\ result.ret = "True") =>
    LET pool == accounts_cache
        size == Len(pool)
        i == result.fetch.index_before
    IN  /\ pool = _fetch_accounts(result.fetch.script).accounts
        /\ size >= 1
        /\ \E position \in 0..(size - 1) :
             /\ \E q \in 0..i : i = q * size + position
             /\ email[result.client] = pool[position + 1].email
             /\ account_id[result.client] = pool[position + 1].id
             /\ \/ position + 1 < size /\ account_index = position + 1
                \/ position + 1 = size /\ account_index = 0
        /\ account_index \in 0..(size - 1)

\* the index was left at page_size by calls over a pool of page_size + 1
\* accounts; the pool has shrunk to one account, which is selected
IndexModuloSizeWitness ==
  /\ result.op = "register_account" /\ result.ret = "True"
  /\ result.fetch.index_before = page_size
  /\ Len(accounts_cache) = 1
  /\ email[result.client] = "a1@pool"
  /\ account_index = 0

\* the page request with answer res failed
Failed(res) == res.raises \/ res.status_code # 200

\* the page request with answer res is the last one: it failed, or its page
\* is empty or short
Stopping(res) == Failed(res) \/ Len(res.json) < page_size

\* the accounts of the pages 1..n of script s, in order, a failed request
\* contributing none
RECURSIVE PagesUpTo(_, _)
PagesUpTo(s, n) ==
  IF n = 0 THEN <<>>
  ELSE PagesUpTo(s, n - 1) \o (IF Failed(s[n]) THEN <<>> ELSE s[n].json)

\* C14: the pool of a register_account call is the concatenation, in order, of
\* the pages 1, 2, ... it requested, one request per page number: every page
\* before the last requested one is full, the last requested one is the first
\* that is short, empty or failed, its accounts are included when it is short
\* and not empty, and none is requested after it. A failure on a page k > 1
\* leaves the pages 1..k-1 as the pool, and an account is selected from it.
PoolIsPagesInOrder ==
  result.op = "register_account" =>
    LET s == result.fetch.script
        n == result.fetch.requests
    IN  /\ n >= 1 /\ n = Len(s)
        /\ \A k \in 1..(n - 1) : ~Stopping(s[k])
        /\ Stopping(s[n])
        /\ accounts_cache = PagesUpTo(s, n)
        /\ (n > 1 /\ Failed(s[n])) =>
             /\ accounts_cache = PagesUpTo(s, n - 1)
             /\ Len(accounts_cache) = (n - 1) * page_size
             /\ result.ret = "True"
             /\ \E k \in DOMAIN accounts_cache :
                  email[result.client] = accounts_cache[k].email

\* a full page, then a request that fails: the full page is the pool and the
\* call that starts at index 1 selects its second account
PoolIsPagesInOrderWitness ==
  /\ result.op = "register_account"
  /\ Len(result.fetch.script) = 2
  /\ Failed(result.fetch.script[2])
  /\ accounts_cache = Slice(1, page_size)
  /\ result.fetch.index_before = 1
  /\ email[result.client] = "a2@pool"

\* the last operation that ended is a register_account that returned False
FailedCall == result.op = "register_account" /\ result.ret = "False"

\* C16: a register_account call that returns False has replaced the shared
\* cache by the empty pool and has left the shared index and the email and
\* account id of every client, the caller's included, as they were; the
\* successful call that comes next starts from the index the failed one found.
FailedCallKeepsSelection ==
  [][/\ FailedCall' =>
          /\ accounts_cache' = <<>>
          /\ UNCHANGED <<account_index, email, account_id>>
          /\ result'.fetch.index_before = account_index
     /\ (FailedCall /\ result'.op = "register_account" /\ result'.ret = "True") =>
          result'.fetch.index_before = result.fetch.index_before]_vars

\* c1 selected the second account of a pool of page_size + 1, then its
\* re-registration failed: it keeps the account, the index stays at 2
FailedCallKeepsSelectionWitness ==
  /\ FailedCall
  /\ result.client = "c1"
  /\ accounts_cache = <<>>
  /\ email["c1"] = "a2@pool" /\ account_id["c1"] = "2"
  /\ account_index = 2

\* ------------------------------------------------------- concurrent calls
\* the call of client c has returned True
Selected(c) == reg[c].pc = "done" /\ reg[c].ret = "True"

\* C15: concurrent register_account calls share the cache and the index
\* without a lock. Over a stable pool of N accounts every call that returns
\* True has selected an entry of the pool, and two calls of which one returned
\* before the other began select neighbouring entries, as the round-robin
\* rule has it; nothing more holds for two calls whose statements interleave:
\* two calls select the same account of a pool of N >= 2 only if they
\* interleaved, and they can (RegisterRaceWitness).
RegisterRace ==
  LET N == Len(remote)
  IN  /\ account_index \in 0..Max(N - 1, 0)
      /\ \A c \in Clients :
           /\ reg[c].pc = "done" => reg[c].ret = (IF N = 0 THEN "False" ELSE "True")
           /\ Selected(c) =>
                /\ reg[c].index \in 0..(N - 1)
                /\ email[c] = remote[reg[c].index + 1].email
                /\ account_id[c] = remote[reg[c].index + 1].id
      /\ \A c, d \in Clients :
           (c # d /\ Selected(c) /\ Selected(d)) =>
             /\ reg[c].overlapped = reg[d].overlapped
             /\ ~reg[c].overlapped =>
                  \/ reg[d].index = (reg[c].index + 1) % N
                  \/ reg[c].index = (reg[d].index + 1) % N
             /\ (N >= 2 /\ reg[c].index = reg[d].index) => reg[c].overlapped

\* two calls that began at the same index of a pool of N >= 2 accounts have
\* both returned True: they selected the same account, and the index has
\* advanced by one, not by two
RegisterRaceWitness ==
  /\ Len(remote) >= 2
  /\ \A c \in Clients : Selected(c) /\ reg[c].overlapped
  /\ reg["c1"].began = reg["c2"].began
  /\ reg["c1"].index = reg["c2"].index
  /\ email["c1"] = email["c2"] /\ account_id["c1"] = account_id["c2"]
  /\ account_index = (reg["c1"].began + 1) % Len(remote)

\* ------------------------------------------------------------ termination
\* the requests _fetch_accounts makes for a list of n accounts
RequestsFor(n) == n \div page_size + 1

\* C17: against a service that serves its finite account list in consecutive
\* slices of page_size, the loop of _fetch_accounts ends: page RequestsFor(n)
\* of a list of n accounts is short or empty, also when n is a multiple of
\* page_size, the loop has made k - 1 requests and holds the first k - 1 pages
\* when it asks for page k, and every call that has entered the loop leaves
\* it, after RequestsFor(n) requests and holding the whole list.
PaginationEnds ==
  /\ [](/\ Len(ServePage(remote, RequestsFor(Len(remote))).json) < page_size
        /\ \A k \in 1..(RequestsFor(Len(remote)) - 1) :
             Len(ServePage(remote, k).json) = page_size
        /\ \A c \in Clients :
             /\ reg[c].requests <= RequestsFor(Len(remote))
             /\ reg[c].pc = "fetch" =>
                  /\ reg[c].page = reg[c].requests + 1
                  /\ reg[c].all_accounts = SubSeq(remote, 1, reg[c].requests * page_size))
  /\ \A c \in Clients :
       (reg[c].pc = "fetch") ~>
         (/\ reg[c].pc = "store"
          /\ reg[c].requests = RequestsFor(Len(remote))
          /\ reg[c].all_accounts = remote)

\* a list of two full pages: the loop has left after a third request, which
\* was answered by an empty page
PaginationEndsWitness ==
  /\ Len(remote) = 2 * page_size
  /\ reg["c1"].pc = "store"
  /\ reg["c1"].requests = 3
  /\ reg["c1"].all_accounts = remote

\* ----------------------------------------------------------------- polling
\* C2: every public operation ends by returning, none by raising
NoExceptionEscapes == result.exc = ""

\* q = a // b, stated by its defining inequalities
IsFloorQuotient(q, a, b) ==
  IF b > 0 THEN q * b <= a /\ a < (q + 1) * b
  ELSE q * b >= a /\ a > (q + 1) * b

\* the quotients of the Timeouts by the Intervals lie in here
Quotients == -12..12

\* max(1, timeout // interval) of the poll p
IsMaxRetries(p) ==
  \E q \in Quotients :
    /\ IsFloorQuotient(q, p.timeout, p.interval)
    /\ p.max_retries = IF q >= 1 THEN q ELSE 1

AllFalsy(s) == \A k \in DOMAIN s : ~Truthy(s[k])

\* a poll_for_code call of a client with an email that has returned
PollReturned ==
  /\ result.op = "poll_for_code"
  /\ result.exc = ""
  /\ Truthy(email[result.client])

\* C3: a poll with a selected email makes at least one and at most
\* max(1, timeout // interval) attempts, every attempt before the last one made
\* found no code, it returns what its last attempt returned, and it returns
\* None exactly when all max_retries attempts found no code; timeout=10,
\* interval=5 gives at most 2 attempts.
PollAttempts ==
  /\ pc # "idle" =>
       /\ IsMaxRetries(poll)
       /\ Len(poll.attempts) <= poll.max_retries
       /\ poll.requests = Len(poll.attempts)
       /\ AllFalsy(poll.attempts)
  /\ (result.op = "poll_for_code" /\ result.poll.max_retries > 0) =>
       /\ IsMaxRetries(result.poll)
       /\ Len(result.poll.attempts) \in 1..result.poll.max_retries
  /\ PollReturned =>
       LET p == result.poll
           n == Len(p.attempts)
       IN  /\ p.requests = n
           /\ AllFalsy(SubSeq(p.attempts, 1, n - 1))
           /\ result.ret = p.attempts[n]
           /\ (result.ret = None) = (n = p.max_retries /\ AllFalsy(p.attempts))
           /\ Truthy(result.ret) \/ result.ret = None
           /\ (p.timeout = 10 /\ p.interval = 5) => n <= 2

\* timeout=12, interval=4: the code arrives for the third and last attempt
PollAttemptsWitness ==
  /\ PollReturned
  /\ result.poll.timeout = 12 /\ result.poll.interval = 4
  /\ result.poll.attempts = <<None, None, "111111">>
  /\ result.ret = "111111"

\* C4: the poll sleeps only between two attempts: before attempt i it has
\* slept i-1 times, it sleeps only after an attempt that found no code and was
\* not the last, so a poll that returns after k attempts has slept k-1 times
\* and one that times out max_retries-1 times (once for timeout=10, interval=5)
PollSleeps ==
  /\ pc = "attempt" =>
       /\ poll.sleeps = poll.i - 1
       /\ Len(poll.attempts) = poll.i - 1
  /\ pc = "sleep" =>
       /\ Len(poll.attempts) = poll.i
       /\ poll.sleeps = poll.i - 1
       /\ poll.i < poll.max_retries
       /\ ~Truthy(poll.attempts[poll.i])
  /\ PollReturned =>
       LET p == result.poll
       IN  /\ p.sleeps = Len(p.attempts) - 1
           /\ result.ret = None => p.sleeps = p.max_retries - 1
           /\ (result.ret = None /\ p.timeout = 10 /\ p.interval = 5) => p.sleeps = 1

\* timeout=10, interval=5 times out after two attempts and one sleep
PollSleepsWitness ==
  /\ PollReturned
  /\ result.poll.timeout = 10 /\ result.poll.interval = 5
  /\ result.ret = None
  /\ Len(result.poll.attempts) = 2
  /\ result.poll.sleeps = 1

\* C8: with no email selected fetch_verification_code and poll_for_code return
\* None without a request, an attempt or a sleep, whatever the cache, the
\* index, the inbox and the arguments are
NoEmailReturnsNone ==
  /\ pc # "idle" => Truthy(email[poll.client])
  /\ (result.op \in {"fetch_verification_code", "poll_for_code"}
        /\ ~Truthy(email[result.client])) =>
       /\ result.ret = None /\ result.exc = ""
       /\ result.scan.requests = 0 /\ result.scan.listed = 0
       /\ result.poll.requests = 0
       /\ result.poll.attempts = <<>>
       /\ result.poll.sleeps = 0

\* a poll with interval 0 by a client without email, the inbox holding a code
\* and the pool cache filled
NoEmailReturnsNoneWitness ==
  /\ result.op = "poll_for_code"
  /\ ~Truthy(email[result.client])
  /\ result.ret = None
  /\ result.poll.interval = 0
  /\ Len(mailbox) = 2
  /\ account_index = 1 /\ accounts_cache # <<>>

\* the answers to a list request after which the lister returns no message
FalsyCauses == {"http_error", "not_success", "exception", "empty"}

\* the attempts of poll p whose list request had one of the FalsyCauses found
\* no code
FalsyCausesFindNothing(p) ==
  /\ Len(p.causes) = Len(p.attempts)
  /\ \A k \in DOMAIN p.causes : p.causes[k] \in FalsyCauses => p.attempts[k] = None

\* C11: a failure of the service and an inbox without messages look the same.
\* After a non-200 status, success = false, an exception or an empty list, the
\* lister returns no message and fetch_verification_code returns None, without
\* raising; a poll attempt with any of these answers finds no code, and a poll
\* whose attempts all had such answers makes max_retries attempts, sleeps
\* max_retries - 1 times and returns None, whichever of them each attempt had.
FailuresLookEmpty ==
  /\ (result.op = "fetch_verification_code" /\ result.scan.cause \in FalsyCauses) =>
       /\ result.scan.listed = 0
       /\ result.scan.scanned = <<>>
       /\ result.ret = None /\ result.exc = ""
  /\ pc # "idle" => FalsyCausesFindNothing(poll)
  /\ result.op = "poll_for_code" => FalsyCausesFindNothing(result.poll)
  /\ (PollReturned /\ \A k \in DOMAIN result.poll.causes :
                        result.poll.causes[k] \in FalsyCauses) =>
       /\ Len(result.poll.attempts) = result.poll.max_retries
       /\ result.poll.sleeps = result.poll.max_retries - 1
       /\ result.ret = None

\* three attempts, each failing in another way, while the inbox holds a code
FailuresLookEmptyWitness ==
  /\ PollReturned
  /\ result.poll.causes = <<"http_error", "not_success", "exception">>
  /\ result.poll.sleeps = 2
  /\ result.ret = None
  /\ Len(mailbox) = 2

\* the time poll p has slept is within its budget
WithinBudget(p) ==
  (p.timeout > 0 /\ p.interval > 0 /\ p.max_retries > 0) =>
    /\ IsMaxRetries(p)
    /\ p.slept = p.sleeps * p.interval
    /\ p.slept <= (p.max_retries - 1) * p.interval
    /\ p.slept <= p.timeout
    /\ p.timeout < p.interval => (Len(p.attempts) <= 1 /\ p.slept = 0)

\* C18: for positive timeout and interval the time slept in one poll_for_code
\* call is (attempts made - 1) * interval, at most
\* (max(1, timeout // interval) - 1) * interval and never more than timeout;
\* with timeout < interval the call makes one attempt and does not sleep.
SleepBudget ==
  /\ pc # "idle" => WithinBudget(poll)
  /\ result.op = "poll_for_code" => WithinBudget(result.poll)
  /\ (PollReturned /\ result.poll.timeout > 0 /\ result.poll.interval > 0) =>
       /\ result.poll.slept = (Len(result.poll.attempts) - 1) * result.poll.interval
       /\ result.poll.timeout < result.poll.interval =>
            (Len(result.poll.attempts) = 1 /\ result.poll.slept = 0)

\* timeout=12, interval=5: two attempts without code and one sleep of 5
SleepBudgetWitness ==
  /\ PollReturned
  /\ result.poll.timeout = 12 /\ result.poll.interval = 5
  /\ Len(result.poll.attempts) = 2
  /\ result.poll.slept = 5
  /\ result.ret = None

\* ----------------------------------------------------------------- session
\* the operation that has just ended is a successful register_account of c
Registers(c) ==
  /\ result'.op = "register_account"
  /\ result'.client = c
  /\ result'.ret = "True"

\* the operation that has just ended is a set_credentials of c
SetsCredentials(c) ==
  /\ result'.op = "set_credentials"
  /\ result'.client = c

\* a step of fetch_verification_code or of poll_for_code
ReadsMail ==
  \/ pc # "idle"
  \/ pc' # "idle"
  \/ result' # result /\ result'.op \in {"fetch_verification_code", "poll_for_code"}

\* C12 as stated: the selected email and the account id of a client change
\* only in a successful register_account of that client
OnlyRegistrationSelects ==
  [][\A c \in Clients :
       (email'[c] # email[c] \/ account_id'[c] # account_id[c]) => Registers(c)]_vars

\* C12 as amended: base_url, proxy_url and log_callback never change; the
\* selected email of a client changes only in a successful register_account or
\* in a set_credentials of that client, its account id only in a successful
\* register_account; the steps of fetch_verification_code and poll_for_code
\* change neither a session nor the shared cache nor the shared index.
SessionFrame ==
  [][/\ session' = session
     /\ \A c \in Clients :
          /\ email'[c] # email[c] => (Registers(c) \/ SetsCredentials(c))
          /\ account_id'[c] # account_id[c] => Registers(c)
     /\ ReadsMail => UNCHANGED <<session, email, account_id, accounts_cache,
                                 account_index>>]_vars

\* c1 has registered and polled a code, c2 was given an email and found none
\* when it fetched; all the sessions are as they were constructed
SessionFrameWitness ==
  /\ email = [c \in Clients |-> IF c = "c1" THEN "a1@pool" ELSE "user@x"]
  /\ account_id = [c \in Clients |-> IF c = "c1" THEN "1" ELSE None]
  /\ account_index = 1
  /\ result.op = "poll_for_code" /\ result.client = "c1" /\ result.ret = "111111"
  /\ Len(result.poll.attempts) = 2
  /\ session = [c \in Clients |-> NewSession]

\* -------------------------------------------------------------------- scan
\* the last fetch_verification_code call listed the inbox and scanned it
Scanned ==
  /\ result.op = "fetch_verification_code"
  /\ result.scan.requests = 1
  /\ result.scan.listed = Len(mailbox)

Range(s) == {s[k] : k \in DOMAIN s}

\* the stamps of the service's format, a time digit and "Z", and their local time
IsStamp(t) == Len(t) = 2 /\ t[1] \in 48..57 /\ t[2] = 90

StampTime(t) == t[1] - 48 + LocalUtcOffset

\* message i of the inbox has a parseable received_time earlier than since_time
Earlier(i) ==
  /\ result.scan.since.given
  /\ IsStamp(mailbox[i].received_time)
  /\ StampTime(mailbox[i].received_time) < result.scan.since.t

\* message i comes before message j in received_time-descending order, messages
\* of equal received_time in the order listed
Before(i, j) ==
  \/ StrLess(mailbox[j].received_time, mailbox[i].received_time)
  \/ mailbox[i].received_time = mailbox[j].received_time /\ i < j

Words(i) == Range(mailbox[i].body) \cup Range(mailbox[i].body_preview)

HasCode(i) == Words(i) \cap Codes # {}

\* the messages a code may come from
Candidates == {i \in DOMAIN mailbox : ~Earlier(i) /\ HasCode(i)}

\* position of message i in sequence s of distinct messages (0: not in it)
PosIn(s, i) == IF i \in Range(s) THEN CHOOSE k \in DOMAIN s : s[k] = i ELSE 0

\* C5: the scan examines the messages in received_time-descending order, for
\* the service's stamps newest first, and returns the code of the first message
\* in that order that the since_time filter does not skip and whose body or
\* preview holds a code; None when there is no such message.
FirstCodeNewestFirst ==
  Scanned =>
    LET sc == result.scan
    IN  /\ Range(sc.order) = DOMAIN mailbox /\ Len(sc.order) = Len(mailbox)
        /\ \A a, b \in DOMAIN sc.order : a < b => Before(sc.order[a], sc.order[b])
        /\ \A a, b \in DOMAIN sc.order :
             (a < b /\ IsStamp(mailbox[sc.order[a]].received_time)
                    /\ IsStamp(mailbox[sc.order[b]].received_time)) =>
               StampTime(mailbox[sc.order[a]].received_time)
                 >= StampTime(mailbox[sc.order[b]].received_time)
        /\ \A a, b \in DOMAIN sc.scanned :
             a < b => PosIn(sc.order, sc.scanned[a]) < PosIn(sc.order, sc.scanned[b])
        /\ Candidates = {} => (result.ret = None /\ sc.hit = 0)
        /\ Candidates # {} =>
             /\ sc.hit \in Candidates
             /\ \A j \in Candidates \ {sc.hit} : Before(sc.hit, j)
             /\ result.ret \in Words(sc.hit) \cap Codes
             /\ sc.scanned[Len(sc.scanned)] = sc.hit

\* an older message with a code listed before a newer one without: the newer
\* one is examined first, the older one's code is returned
FirstCodeNewestFirstWitness ==
  /\ Scanned
  /\ ~result.scan.since.given
  /\ mailbox = <<Message(<<49, 90>>, CodeInPreview), Message(<<51, 90>>, Plain)>>
  /\ result.scan.scanned = <<2, 1>>
  /\ result.ret = "222222"

\* C6: with since_time given, the filter leaves out exactly the messages whose
\* received_time parses and is strictly earlier than since_time: none of them
\* is examined, no other message is left out, and the messages at since_time
\* or later are examined in order until a code is found.
SinceFilter ==
  Scanned =>
    LET sc == result.scan
        early == {i \in DOMAIN mailbox : Earlier(i)}
        reached == IF sc.hit = 0 THEN DOMAIN mailbox
                   ELSE {i \in DOMAIN mailbox : i = sc.hit \/ Before(i, sc.hit)}
    IN  /\ sc.skipped = early \cap reached
        /\ Range(sc.scanned) = reached \ early
        /\ sc.hit \notin early
        /\ (\A i \in DOMAIN mailbox : HasCode(i) => Earlier(i)) => result.ret = None

\* stamps T1 < T2 < T3 and since_time = T2: the code is in the message at T1
\* only, the messages at T2 and T3 are examined, None is returned
SinceFilterWitness ==
  /\ Scanned
  /\ mailbox = <<Message(<<49, 90>>, CodeInPreview), Message(<<50, 90>>, Plain),
                 Message(<<51, 90>>, Plain)>>
  /\ result.scan.since = [given |-> TRUE, t |-> StampTime(<<50, 90>>)]
  /\ result.scan.skipped = {1}
  /\ result.scan.scanned = <<3, 2>>
  /\ result.ret = None

\* C7: a message whose received_time is missing or does not parse is left out
\* by no since_time and makes no scan raise: it is examined whenever the scan
\* gets to it; those with a missing received_time come after all others.
UnparsedNeverSkipped ==
  Scanned =>
    LET sc == result.scan
        unparsed == {i \in DOMAIN mailbox : ~IsStamp(mailbox[i].received_time)}
    IN  /\ result.exc = ""
        /\ sc.skipped \cap unparsed = {}
        /\ sc.hit = 0 => unparsed \subseteq Range(sc.scanned)
        /\ \A i \in unparsed : (sc.hit # 0 /\ Before(i, sc.hit)) => i \in Range(sc.scanned)
        /\ \A a, b \in DOMAIN sc.order :
             (mailbox[sc.order[a]].received_time = <<>>
                /\ mailbox[sc.order[b]].received_time # <<>>) => b < a

\* since_time after the stamp: the stamped message is left out, the one that
\* does not parse and the one without received_time are examined, the latter
\* last, and its code is returned
UnparsedNeverSkippedWitness ==
  /\ Scanned
  /\ mailbox = <<Message(<<>>, CodeInPreview), Message(<<50, 120>>, Plain),
                 Message(<<49, 90>>, CodeInPreview)>>
  /\ result.scan.since = [given |-> TRUE, t |-> StampTime(<<51, 90>>)]
  /\ result.scan.skipped = {3}
  /\ result.scan.scanned = <<2, 1>>
  /\ result.scan.hit = 1

====
